---- MODULE Spec2Model ----
(***************************************************************************)
(* A model of myshell.c: the tokenizer, the command parser, the pipeline   *)
(* executor with its file descriptors, the job table and the SIGCHLD       *)
(* reaper.  Characters are one-character strings, a line or a token is a   *)
(* sequence of characters, a descriptor table maps a descriptor number to  *)
(* the open file description it names.                                     *)
(***************************************************************************)
EXTENDS Integers, Sequences, FiniteSets, TLC

\* ------------------------------------------------------------ sizes

\* #define MAX_TOKENS 256, scaled down: the tokenizer keeps MAX_TOKENS-1 tokens.
MAX_TOKENS == 9
\* #define MAX_JOBS 128, scaled down.
MAX_JOBS == 2
\* sizeof(jobs[i].cmdline) is 512, scaled down: add_job copies CMDLINE_SIZE-1 bytes.
CMDLINE_SIZE == 5
\* Descriptors per process (RLIMIT_NOFILE): descriptor numbers are 0..MaxFd-1.
MaxFd == 8
\* Spec: lines read in one run, and children forked in one run.
MaxLines == 2
MaxChildren == 2
\* PipeSpec: stages of the longest pipeline.
MaxStages == 3
\* pipe() and fork() failures in one run.
MaxFail == 1
\* ParseSpec: the longest line drawn over the whole alphabet.
MaxLineLen == 4
\* JobSpec: background commands read in one run.
MaxJobLines == 3

VARIABLES
  pc,          \* position of the main flow
  nread,       \* lines read so far
  line,        \* the line being interpreted (main: trim)
  tokens,      \* tokenize's output
  rc,          \* parse_commands' return value
  cmds,        \* parse_commands' cmds[0..ncmds-1]
  ncmds,
  background,
  nbuiltin,    \* builtin effects applied for the line in hand (chdir, listing, exit)
  i,           \* execute_pipeline: stage index (0-based, as in the source)
  prev_fd,     \* execute_pipeline: read end of the previous pipe, or -1
  pipe_fd,     \* execute_pipeline: pipe_fd[0] and pipe_fd[1]
  last_pid,    \* execute_pipeline: pid of the last child forked, or -1
  npipe,       \* execute_pipeline: pipes created by this call
  jidx,        \* add_job: loop index (0-based)
  fds,         \* the interpreter's descriptor table
  jobs,        \* the job table, jobs[1..MAX_JOBS] (slot k is jobs[k-1] in C)
  procs,       \* the children, by pid
  hist,        \* the pipelines handed to execute_pipeline so far
  sigpending,  \* SIGCHLD is pending for the interpreter
  inhandler,   \* sigchld_handler is running
  announced,   \* pid -> the display index add_job printed for it, or 0
  notices,     \* pid -> the display indexes of the completion notices naming it
  jobfull,     \* the pids for which add_job printed "job list full"
  waiterr,     \* perror("waitpid") calls
  failed       \* perror("pipe") and perror("fork") calls

vars == <<pc, nread, line, tokens, rc, cmds, ncmds, background, nbuiltin, i, prev_fd,
          pipe_fd, last_pid, npipe, jidx, fds, jobs, procs, hist, sigpending,
          inhandler, announced, notices, jobfull, waiterr, failed>>

parsevars == <<line, tokens, rc, cmds, ncmds, background, nbuiltin>>
execvars == <<i, prev_fd, pipe_fd, last_pid, npipe, jidx, fds, hist, failed>>
jobvars == <<jobs, announced, notices, jobfull>>

\* ------------------------------------------------------------ tokenizer

IsSpace(c) == c \in {" ", "\t", "\n"}
IsOperatorChar(c) == c \in {">", "<", "|", "&"}
IsQuote(c) == c \in {"'", "\""}

\* The skip loop of line 91: the first position at or after p that holds no blank.
RECURSIVE SkipSpace(_, _)
SkipSpace(s, p) ==
  IF p <= Len(s) /\ IsSpace(s[p]) THEN SkipSpace(s, p + 1) ELSE p

\* The word loop of lines 106-114: the position where the word that is being
\* scanned stops (one past the end of the line when it runs to the end).
RECURSIVE ScanWord(_, _, _, _)
ScanWord(s, p, inquote, quotechar) ==
  IF p > Len(s) THEN p
  ELSE IF ~inquote /\ IsSpace(s[p]) THEN p
  ELSE IF ~inquote /\ IsQuote(s[p]) THEN ScanWord(s, p + 1, TRUE, s[p])
  ELSE IF inquote /\ s[p] = quotechar THEN ScanWord(s, p + 1, FALSE, "")
  ELSE IF ~inquote /\ IsOperatorChar(s[p]) THEN p
  ELSE ScanWord(s, p + 1, inquote, quotechar)

KeepQuotes(w) == w

\* The copy loop of lines 118-122: every quote character is dropped.
StripQuotes(w) == SelectSeq(w, LAMBDA c : ~IsQuote(c))

NoLookahead(s, q) == FALSE

\* The test of line 94: the '>' at q is followed by another '>'.
IsAppendOperator(s, q) == s[q] = ">" /\ q + 1 <= Len(s) /\ s[q + 1] = ">"

\* The outer loop of lines 90-125, from position p with the tokens toks so far.
RECURSIVE TokenizeFrom(_, _, _, _)
TokenizeFrom(s, p, toks, max_tokens) ==
  IF ~(p <= Len(s) /\ Len(toks) < max_tokens - 1) THEN toks
  ELSE LET q == SkipSpace(s, p) IN
    IF q > Len(s) THEN toks
    ELSE IF IsOperatorChar(s[q])
      THEN IF IsAppendOperator(s, q)
             THEN TokenizeFrom(s, q + 2, Append(toks, <<">", ">">>), max_tokens)
             ELSE TokenizeFrom(s, q + 1, Append(toks, <<s[q]>>), max_tokens)
      ELSE LET e == ScanWord(s, q, FALSE, "") IN
             TokenizeFrom(s, e, Append(toks, StripQuotes(SubSeq(s, q, e - 1))),
                          max_tokens)

tokenize(s, max_tokens) == TokenizeFrom(s, 1, <<>>, max_tokens)

\* main, lines 328-329: leading spaces and tabs are skipped.
RECURSIVE Trim(_)
Trim(s) ==
  IF s # <<>> /\ s[1] \in {" ", "\t"} THEN Trim(Tail(s)) ELSE s

\* ------------------------------------------------------------ parser

\* A cmd_t: infile and outfile are <<>> for NULL and <<path>> otherwise.
EmptyCmd == [argv |-> <<>>, infile |-> <<>>, outfile |-> <<>>, append |-> FALSE]

SetLast(cs, c) == [cs EXCEPT ![Len(cs)] = c]

\* The loop of lines 156-182 from token i (1-based); the current stage is the
\* last element of cs, so ci is Len(cs)-1 and ai is Len(cs[Len(cs)].argv).
RECURSIVE ParseFrom(_, _, _, _)
ParseFrom(toks, k, cs, bg) ==
  IF k > Len(toks)
    THEN [rc |-> 0, cmds |-> cs, ncmds |-> Len(cs), background |-> bg]
  ELSE LET t == toks[k]
           cur == cs[Len(cs)]
           err == [rc |-> -1, cmds |-> cs, ncmds |-> 0, background |-> bg]
       IN
    IF t = <<"&">> THEN ParseFrom(toks, k + 1, cs, TRUE)
    ELSE IF t = <<"|">> THEN
      IF Len(cs) >= MAX_TOKENS
        THEN err
        ELSE ParseFrom(toks, k + 1, Append(cs, EmptyCmd), bg)
    ELSE IF t = <<"<">> THEN
      IF k + 1 > Len(toks) THEN err
      ELSE ParseFrom(toks, k + 2,
                     SetLast(cs, [cur EXCEPT !.infile = <<toks[k + 1]>>]), bg)
    ELSE IF t = <<">">> \/ t = <<">", ">">> THEN
      IF k + 1 > Len(toks) THEN err
      ELSE ParseFrom(toks, k + 2,
                     SetLast(cs, [cur EXCEPT !.outfile = <<toks[k + 1]>>,
                                             !.append = (t = <<">", ">">>)]), bg)
    ELSE ParseFrom(toks, k + 1,
                   SetLast(cs, [cur EXCEPT !.argv = Append(@, t)]), bg)

parse_commands(toks) == ParseFrom(toks, 1, <<EmptyCmd>>, FALSE)

\* run_builtin's return value for a stage (lines 189-208): 1 for cd and jobs;
\* exit never returns.
IsBuiltin(c) ==
  /\ c.argv # <<>>
  /\ c.argv[1] \in {<<"c", "d">>, <<"e", "x", "i", "t">>, <<"j", "o", "b", "s">>}

BuiltinAnyLength(n, cs) == IsBuiltin(cs[1])

\* The test of lines 347 and 218: ncmds == 1 && run_builtin(&cmds[0]).
BuiltinRoute(n, cs) == n = 1 /\ IsBuiltin(cs[1])

\* ------------------------------------------------------------ descriptors

\* What a descriptor names: the terminal the interpreter was started on, one
\* end of the pipe created for stage idx of pipeline ln, a file opened by a
\* redirection of stage idx of pipeline ln (for reading, for writing with
\* O_TRUNC, or for writing with O_APPEND; the output file is created when it
\* does not exist), or nothing.
Closed == [kind |-> "closed", ln |-> 0, idx |-> 0]
Tty == [kind |-> "tty", ln |-> 0, idx |-> 0]
ReadEnd(l, k) == [kind |-> "r", ln |-> l, idx |-> k]
WriteEnd(l, k) == [kind |-> "w", ln |-> l, idx |-> k]
InFile(l, k) == [kind |-> "infile", ln |-> l, idx |-> k]
OutFile(l, k) == [kind |-> "outfile", ln |-> l, idx |-> k]
OutFileAppend(l, k) == [kind |-> "append", ln |-> l, idx |-> k]

Fds == 0 .. (MaxFd - 1)
\* pipe_fd[0] = pipe_fd[1] = -1, line 224.
NoPipeFds == (0 :> -1 @@ 1 :> -1)
IsPipeEnd(o) == o.kind \in {"r", "w"}

\* The lowest free descriptor number, or -1 (EMFILE).
LowestFree(f) ==
  IF \E n \in Fds : f[n] = Closed
    THEN CHOOSE n \in Fds : f[n] = Closed /\ \A m \in Fds : f[m] = Closed => n <= m
    ELSE -1

close(f, fd) == [f EXCEPT ![fd] = Closed]
dup2(f, old, new) == IF old = new THEN f ELSE [f EXCEPT ![new] = f[old]]
\* open(2) and each half of pipe(2): the lowest free number names o.
Install(f, o) == [f EXCEPT ![LowestFree(f)] = o]

\* ------------------------------------------------------------ the child

\* Lines 235-238.
ChildDupStdin(f, prev) ==
  IF prev # -1 THEN close(dup2(f, prev, 0), prev) ELSE f

ChildDupWrongEnd(f, pfd) ==
  IF pfd[1] # -1 THEN close(dup2(f, pfd[0], 1), pfd[1]) ELSE f

\* Lines 239-242.
ChildDupStdout(f, pfd) ==
  IF pfd[1] # -1 THEN close(dup2(f, pfd[1], 1), pfd[1]) ELSE f

\* Lines 248-249 and 256-257: the file just opened replaces the standard stream.
ChildRedirect(f, o, std) ==
  LET fd == LowestFree(f) IN close(dup2(Install(f, o), fd, std), fd)

OpenTruncated(c, l, k) == OutFile(l, k)

\* Lines 253-254: O_CREAT | O_WRONLY | (append ? O_APPEND : O_TRUNC).
OpenOutfile(c, l, k) == IF c.append THEN OutFileAppend(l, k) ELSE OutFile(l, k)

ChildKeepUnused(f, pfd) == f

\* Line 261.
ChildCloseUnused(f, pfd) ==
  IF pfd[0] # -1 THEN close(f, pfd[0]) ELSE f

\* The child's code, lines 233-267, run on the table it inherited: how it
\* leaves that code and with which descriptors.  inok, outok and execok say
\* whether open(infile), open(outfile) and execvp succeed.
ChildRun(c, l, k, f0, prev, pfd, inok, outok, execok) ==
  LET f1 == ChildDupStdout(ChildDupStdin(f0, prev), pfd)
      f2 == IF c.infile # <<>> THEN ChildRedirect(f1, InFile(l, k), 0) ELSE f1
      f3 == IF c.outfile # <<>> THEN ChildRedirect(f2, OpenOutfile(c, l, k), 1) ELSE f2
      f4 == ChildCloseUnused(f3, pfd)
  IN
  IF c.infile # <<>> /\ ~(inok /\ LowestFree(f1) # -1)
    THEN [left |-> "openfail", status |-> 1, fds |-> f1]
  ELSE IF c.outfile # <<>> /\ ~(outok /\ LowestFree(f2) # -1)
    THEN [left |-> "openfail", status |-> 1, fds |-> f2]
  ELSE IF c.argv = <<>>
    THEN [left |-> "noargv", status |-> 0, fds |-> f4]
  ELSE IF execok
    THEN [left |-> "exec", status |-> 0, fds |-> f4]
    ELSE [left |-> "execfail", status |-> 127, fds |-> f4]

\* ------------------------------------------------------------ state

MaxPid ==
  CHOOSE n \in {MaxStages, MaxChildren, MaxJobLines} :
    \A m \in {MaxStages, MaxChildren, MaxJobLines} : m <= n
Pids == 1 .. MaxPid
Slots == 1 .. MAX_JOBS

AllClosed == [n \in Fds |-> Closed]

\* A pid not yet given to a child.
NoProc == [state |-> "none", ln |-> 0, stage |-> 0, prev_fd |-> -1,
           pipe_fd |-> NoPipeFds, fds |-> AllClosed, status |-> 0]

Alive(p) == procs[p].state \in {"forked", "running"}
Terminated(p) == procs[p].state \in {"zombie", "reaped"}
Zombies == {p \in Pids : procs[p].state = "zombie"}
Forked == {p \in Pids : procs[p].state # "none"}

\* The pid fork returns next: pids are handed out in order.
NextPid == Cardinality(Forked) + 1

\* n stages: a|a|...|a.
RECURSIVE PipeLine(_)
PipeLine(n) == IF n <= 1 THEN <<"a">> ELSE PipeLine(n - 1) \o <<"|", "a">>

\* The lines the read loop is given under Spec: a background command, a
\* background pipeline whose text is longer than a job record holds, and a
\* foreground pipeline whose first stage has a redirection and no program.
ShellLines ==
  { <<"a", "&">>,
    <<"a", "|", "a", " ", "&">>,
    <<"<", "f", "|", "a">> }

\* The lines the read loop is given under RedirSpec: a middle stage that
\* writes to a file, a middle stage that reads from a file, and a background
\* pipeline whose first stage appends to a file.
RedirLines ==
  { <<"a", "|", "a", ">", "f", "|", "a">>,
    <<"a", "|", "a", "<", "f", "|", "a">>,
    <<"a", ">", ">", "f", "|", "a", "&">> }

\* The line the read loop is given under JobSpec: a background command.
JobLines == { <<"a", "&">> }

\* The lines the read loop is given under BuiltinSpec: the three builtins
\* alone, and cd as a stage of a foreground and of a background pipeline.
BuiltinLines ==
  { <<"c", "d">>,
    <<"j", "o", "b", "s">>,
    <<"e", "x", "i", "t">>,
    <<"c", "d", "|", "a">>,
    <<"a", "|", "c", "d", "&">> }

\* The lines the read loop is given under PipeSpec: a pipeline of each length,
\* the longest one in the background, and one whose first stage has a
\* redirection and no program.
PipeLines ==
  {PipeLine(n) : n \in 1 .. MaxStages}
    \cup {PipeLine(MaxStages) \o <<"&">>}
    \cup {<<"<", "f", "|">> \o PipeLine(MaxStages - 1)}

\* main, lines 293-306: the table is cleared and the handlers are installed;
\* descriptors 0, 1 and 2 are the terminal.
Init ==
  /\ pc = "read"
  /\ nread = 0
  /\ line = <<>>
  /\ tokens = <<>>
  /\ rc = 0
  /\ cmds = <<>>
  /\ ncmds = 0
  /\ background = FALSE
  /\ nbuiltin = 0
  /\ i = 0
  /\ prev_fd = -1
  /\ pipe_fd = NoPipeFds
  /\ last_pid = -1
  /\ npipe = 0
  /\ jidx = 0
  /\ fds = [n \in Fds |-> IF n <= 2 THEN Tty ELSE Closed]
  /\ jobs = [k \in Slots |-> [pid |-> 0, cmdline |-> <<>>, running |-> FALSE]]
  /\ procs = [p \in Pids |-> NoProc]
  /\ hist = <<>>
  /\ sigpending = FALSE
  /\ inhandler = FALSE
  /\ announced = [p \in Pids |-> 0]
  /\ notices = [p \in Pids |-> <<>>]
  /\ jobfull = {}
  /\ waiterr = 0
  /\ failed = 0

\* The main flow runs unless it has exited or the handler has interrupted it.
MainRuns == pc # "exited" /\ ~inhandler

\* ------------------------------------------------------------ the main flow

\* strncpy(jobs[i].cmdline, cmdline, sizeof(jobs[i].cmdline)-1), line 39.
strncpy(src, n) == SubSeq(src, 1, IF Len(src) < n THEN Len(src) ELSE n)

\* One turn of the read loop up to the call of execute_pipeline, lines 318-353:
\* getline, trim, tokenize, parse_commands, run_builtin.  A blank line, a line
\* without tokens and a parse error go back to the prompt; exit ends the
\* interpreter; cd and jobs change nothing that is modelled; any other line
\* enters execute_pipeline, whose own builtin test (line 218) then fails as
\* main's did.  run_builtin has its effect in the call of line 347 only.
ReadLine(lines, maxlines, maxchildren) ==
  /\ MainRuns
  /\ pc = "read"
  /\ nread < maxlines
  /\ \E l \in lines :
       LET trim == Trim(l)
           toks == tokenize(trim, MAX_TOKENS)
           r == parse_commands(toks)
           parsed == trim # <<>> /\ Len(toks) > 0
           builtin == parsed /\ r.rc = 0 /\ BuiltinRoute(r.ncmds, r.cmds)
           enter == parsed /\ r.rc = 0 /\ ~builtin
           builtin218 == enter /\ BuiltinRoute(r.ncmds, r.cmds)
           run == enter /\ ~builtin218
       IN
       /\ run => Cardinality(Forked) + r.ncmds <= maxchildren
       /\ nread' = nread + 1
       /\ line' = trim
       /\ tokens' = IF trim # <<>> THEN toks ELSE tokens
       /\ rc' = IF parsed THEN r.rc ELSE rc
       /\ cmds' = IF parsed THEN r.cmds ELSE cmds
       /\ ncmds' = IF parsed THEN r.ncmds ELSE ncmds
       /\ background' = IF parsed THEN r.background ELSE background
       /\ nbuiltin' = (IF builtin THEN 1 ELSE 0) + (IF builtin218 THEN 1 ELSE 0)
       /\ i' = 0
       /\ prev_fd' = -1
       /\ pipe_fd' = NoPipeFds
       /\ last_pid' = -1
       /\ npipe' = 0
       /\ jidx' = 0
       /\ hist' = IF run
                    THEN Append(hist, [cmds |-> r.cmds, background |-> r.background,
                                       cmdline |-> trim])
                    ELSE hist
       /\ pc' = IF run THEN "pipe"
                ELSE IF builtin /\ r.cmds[1].argv[1] = <<"e", "x", "i", "t">>
                  THEN "exited"
                ELSE "read"
  /\ UNCHANGED <<fds, jobs, procs, sigpending, inhandler, announced, notices,
                 jobfull, waiterr, failed>>

ReadShell == ReadLine(ShellLines, MaxLines, MaxChildren)

ReadPipeline == ReadLine(PipeLines, 1, MaxStages)

ReadBuiltin == ReadLine(BuiltinLines, MaxLines, MaxChildren)

ReadJob == ReadLine(JobLines, MaxJobLines, MaxJobLines)

ReadRedir == ReadLine(RedirLines, 1, MaxStages)

\* Lines 221-225 for a stage that is not the last: pipe() gives the two lowest
\* free descriptors.
PipeOk ==
  /\ MainRuns
  /\ pc = "pipe"
  /\ i < ncmds - 1
  /\ LowestFree(fds) # -1
  /\ LET r == LowestFree(fds)
         f1 == Install(fds, ReadEnd(Len(hist), i))
         w == LowestFree(f1)
     IN /\ w # -1
        /\ fds' = Install(f1, WriteEnd(Len(hist), i))
        /\ pipe_fd' = (0 :> r @@ 1 :> w)
  /\ npipe' = npipe + 1
  /\ pc' = "fork"
  /\ UNCHANGED <<nread, parsevars, i, prev_fd, last_pid, jidx, hist, failed,
                 jobvars, procs, sigpending, inhandler, waiterr>>

\* Line 222: pipe() fails, execute_pipeline returns.
PipeFail ==
  /\ MainRuns
  /\ pc = "pipe"
  /\ i < ncmds - 1
  /\ failed < MaxFail
  /\ failed' = failed + 1
  /\ pc' = "read"
  /\ UNCHANGED <<nread, parsevars, i, prev_fd, pipe_fd, last_pid, npipe, jidx, fds,
                 hist, jobvars, procs, sigpending, inhandler, waiterr>>

\* Line 224: the last stage gets no pipe.
NoPipe ==
  /\ MainRuns
  /\ pc = "pipe"
  /\ i = ncmds - 1
  /\ pipe_fd' = NoPipeFds
  /\ pc' = "fork"
  /\ UNCHANGED <<nread, parsevars, i, prev_fd, last_pid, npipe, jidx, fds, hist,
                 failed, jobvars, procs, sigpending, inhandler, waiterr>>

FirstPid(old, pid) == IF old = -1 THEN pid ELSE old

\* Line 270: last_pid = pid.
NewLastPid(old, pid) == pid

\* Lines 227 and 270: fork() succeeds; the child starts with a copy of the
\* interpreter's descriptors and of prev_fd and pipe_fd, and the parent notes
\* its pid.
ForkOk ==
  /\ MainRuns
  /\ pc = "fork"
  /\ NextPid \in Pids
  /\ procs' = [procs EXCEPT ![NextPid] =
                 [state |-> "forked", ln |-> Len(hist), stage |-> i,
                  prev_fd |-> prev_fd, pipe_fd |-> pipe_fd, fds |-> fds,
                  status |-> 0]]
  /\ last_pid' = NewLastPid(last_pid, NextPid)
  /\ pc' = "parent"
  /\ UNCHANGED <<nread, parsevars, i, prev_fd, pipe_fd, npipe, jidx, fds, hist,
                 failed, jobvars, sigpending, inhandler, waiterr>>

\* Line 228: fork() fails, execute_pipeline returns.
ForkFail ==
  /\ MainRuns
  /\ pc = "fork"
  /\ failed < MaxFail
  /\ failed' = failed + 1
  /\ pc' = "read"
  /\ UNCHANGED <<nread, parsevars, i, prev_fd, pipe_fd, last_pid, npipe, jidx, fds,
                 hist, jobvars, procs, sigpending, inhandler, waiterr>>

\* Line 271.
ParentClosePrev(f, prev) == IF prev # -1 THEN close(f, prev) ELSE f

ParentKeepWrite(f, pfd) == f

\* Line 272.
ParentCloseWrite(f, pfd) == IF pfd[1] # -1 THEN close(f, pfd[1]) ELSE f

\* Lines 271-273 and the loop's ++i and test: the parent closes what the next
\* stage does not need and goes on to the next stage, or to line 277.
ParentAfterFork ==
  /\ MainRuns
  /\ pc = "parent"
  /\ fds' = ParentCloseWrite(ParentClosePrev(fds, prev_fd), pipe_fd)
  /\ prev_fd' = pipe_fd[0]
  /\ i' = i + 1
  /\ pc' = IF i + 1 < ncmds THEN "pipe"
           ELSE IF background THEN "add_job" ELSE "wait"
  /\ UNCHANGED <<nread, parsevars, pipe_fd, last_pid, npipe, jidx, hist, failed,
                 jobvars, procs, sigpending, inhandler, waiterr>>

OverwriteLast(js, pid, cmdline) ==
  [js EXCEPT ![MAX_JOBS] = [pid |-> pid, cmdline |-> cmdline, running |-> TRUE]]

\* Line 45: after the loop add_job only prints "job list full".
JobsWhenFull(js, pid, cmdline) == js

\* One turn of add_job's loop, lines 36-44, or line 45 after the last turn.
AddJob ==
  /\ MainRuns
  /\ pc = "add_job"
  /\ IF jidx < MAX_JOBS
       THEN IF ~jobs[jidx + 1].running
              THEN /\ jobs' = [jobs EXCEPT ![jidx + 1] =
                                 [pid |-> last_pid,
                                  cmdline |-> strncpy(line, CMDLINE_SIZE - 1),
                                  running |-> TRUE]]
                   /\ announced' = [announced EXCEPT ![last_pid] = jidx + 1]
                   /\ pc' = "read"
                   /\ UNCHANGED <<jidx, jobfull>>
              ELSE /\ jidx' = jidx + 1
                   /\ UNCHANGED <<pc, jobs, announced, jobfull>>
       ELSE /\ jobfull' = jobfull \cup {last_pid}
            /\ jobs' = JobsWhenFull(jobs, last_pid, line)
            /\ pc' = "read"
            /\ UNCHANGED <<jidx, announced>>
  /\ UNCHANGED <<nread, parsevars, i, prev_fd, pipe_fd, last_pid, npipe, fds, hist,
                 failed, notices, procs, sigpending, inhandler, waiterr>>

WaitsForAny(p) == TRUE

\* The child waitpid(last_pid, &status, 0) waits for, line 283.
WaitsFor(p) == p = last_pid

\* Lines 283-287: waitpid returns the pid once that child has terminated and
\* has not been reaped; it fails with ECHILD, which is reported, when the
\* interpreter has no such child any more.  SA_RESTART restarts the call when
\* the handler has interrupted it.
Wait ==
  /\ MainRuns
  /\ pc = "wait"
  /\ \/ \E p \in Zombies :
          /\ WaitsFor(p)
          /\ procs' = [procs EXCEPT ![p].state = "reaped", ![p].status = 0]
          /\ UNCHANGED waiterr
     \/ /\ \A p \in Pids : WaitsFor(p) => procs[p].state \in {"none", "reaped"}
        /\ waiterr' = waiterr + 1
        /\ UNCHANGED procs
  /\ pc' = "read"
  /\ UNCHANGED <<nread, parsevars, execvars, jobvars, sigpending, inhandler>>

\* ------------------------------------------------------------ the reaper

AnyRunningSlot(pid) ==
  IF \E k \in Slots : jobs[k].running
    THEN CHOOSE k \in Slots :
           jobs[k].running /\ \A m \in Slots : jobs[m].running => k <= m
    ELSE 0

\* mark_job_done's loop, lines 49-60: the first slot that is running with this
\* pid, or 0.
JobSlotOf(pid) ==
  IF \E k \in Slots : jobs[k].running /\ jobs[k].pid = pid
    THEN CHOOSE k \in Slots :
           /\ jobs[k].running /\ jobs[k].pid = pid
           /\ \A m \in Slots : jobs[m].running /\ jobs[m].pid = pid => k <= m
    ELSE 0

\* SIGCHLD is delivered: the handler interrupts the main flow wherever it is.
\* The signal is blocked while its handler runs.
HandlerEnter ==
  /\ pc # "exited"
  /\ sigpending
  /\ ~inhandler
  /\ sigpending' = FALSE
  /\ inhandler' = TRUE
  /\ UNCHANGED <<pc, nread, parsevars, execvars, jobvars, procs, waiterr>>

LoopOnce == FALSE

\* while (1), line 67: after a child is reaped the handler asks for another.
LoopAgain == TRUE

\* One turn of the handler's loop, lines 69-71: waitpid(-1, WNOHANG) returns
\* some terminated child and mark_job_done retires its job, if it has one.
HandlerReap ==
  /\ inhandler
  /\ \E p \in Zombies :
       /\ procs' = [procs EXCEPT ![p].state = "reaped", ![p].status = 0]
       /\ LET k == JobSlotOf(p) IN
            IF k # 0
              THEN /\ jobs' = [jobs EXCEPT ![k].running = FALSE]
                   /\ notices' = [notices EXCEPT ![p] = Append(@, k)]
              ELSE UNCHANGED <<jobs, notices>>
  /\ inhandler' = LoopAgain
  /\ UNCHANGED <<pc, nread, parsevars, execvars, announced, jobfull,
                 sigpending, waiterr>>

\* Line 70: waitpid(-1, WNOHANG) finds no terminated child; the handler returns.
HandlerReturn ==
  /\ inhandler
  /\ Zombies = {}
  /\ inhandler' = FALSE
  /\ UNCHANGED <<pc, nread, parsevars, execvars, jobvars, procs, sigpending,
                 waiterr>>

\* ------------------------------------------------------------ the children

\* A terminating child makes SIGCHLD pending for the interpreter, if it lives.
Raise == IF pc = "exited" THEN sigpending ELSE TRUE

\* A forked child runs its code up to execvp or exit.  execvp replaces the
\* image, so the copies of prev_fd and pipe_fd are gone and the descriptors
\* stay; exit closes every descriptor and leaves the exit status, which is
\* kept until the child is collected.
ChildExec(p) ==
  /\ procs[p].state = "forked"
  /\ \E inok, outok, execok \in BOOLEAN :
       LET me == procs[p]
           r == ChildRun(hist[me.ln].cmds[me.stage + 1], me.ln, me.stage, me.fds,
                         me.prev_fd, me.pipe_fd, inok, outok, execok)
       IN
       /\ procs' = [procs EXCEPT ![p] =
                      [state |-> IF r.left = "exec" THEN "running" ELSE "zombie",
                       ln |-> me.ln, stage |-> me.stage, prev_fd |-> -1,
                       pipe_fd |-> NoPipeFds,
                       fds |-> IF r.left = "exec" THEN r.fds ELSE AllClosed,
                       status |-> IF r.left = "exec" THEN 0 ELSE r.status]]
       /\ sigpending' = IF r.left = "exec" THEN sigpending ELSE Raise
  /\ UNCHANGED <<pc, nread, parsevars, execvars, jobvars, inhandler, waiterr>>

\* The program a child runs terminates, which closes its descriptors (its
\* exit status is taken to be 0).
ChildTerminate(p) ==
  /\ procs[p].state = "running"
  /\ procs' = [procs EXCEPT ![p].state = "zombie", ![p].fds = AllClosed]
  /\ sigpending' = Raise
  /\ UNCHANGED <<pc, nread, parsevars, execvars, jobvars, inhandler, waiterr>>

\* ------------------------------------------------------------ specification

Step ==
  \/ PipeOk
  \/ PipeFail
  \/ NoPipe
  \/ ForkOk
  \/ ForkFail
  \/ ParentAfterFork
  \/ AddJob
  \/ Wait
  \/ HandlerEnter
  \/ HandlerReap
  \/ HandlerReturn
  \/ \E p \in Pids : ChildExec(p)
  \/ \E p \in Pids : ChildTerminate(p)

\* The interpreter on a session of short lines.
Next == ReadShell \/ Step

Spec == Init /\ [][Next]_vars

\* The interpreter on one pipeline of up to MaxStages stages.
PipeNext == ReadPipeline \/ Step

PipeSpec == Init /\ [][PipeNext]_vars

\* The interpreter on a session of builtins and of pipelines that name one.
BuiltinNext == ReadBuiltin \/ Step

BuiltinSpec == Init /\ [][BuiltinNext]_vars

\* The interpreter on one pipeline with a redirection.
RedirNext == ReadRedir \/ Step

RedirSpec == Init /\ [][RedirNext]_vars

\* The interpreter on a session of background commands; a command of one
\* stage in the background never reaches pipe() nor the foreground wait.
JobNext ==
  \/ ReadJob
  \/ NoPipe
  \/ ForkOk
  \/ ForkFail
  \/ ParentAfterFork
  \/ AddJob
  \/ HandlerEnter
  \/ HandlerReap
  \/ HandlerReturn
  \/ \E p \in Pids : ChildExec(p)
  \/ \E p \in Pids : ChildTerminate(p)

JobSpec == Init /\ [][JobNext]_vars

\* ------------------------------------------------------------ the parser alone

Alphabet == {"a", " ", "'", "\"", "|", ">", "<", "&"}

\* Every line of at most MaxLineLen characters.
CharLines == UNION {[1 .. n -> Alphabet] : n \in 0 .. MaxLineLen}

\* The words ws, one blank between two of them.
RECURSIVE JoinWords(_)
JoinWords(ws) ==
  IF Len(ws) = 0 THEN <<>>
  ELSE IF Len(ws) = 1 THEN <<ws[1]>>
  ELSE <<ws[1], " ">> \o JoinWords(Tail(ws))

\* Lines of up to MAX_TOKENS one-letter words.
WordLines ==
  {JoinWords(ws) : ws \in UNION {[1 .. n -> {"a", "b"}] : n \in 1 .. MAX_TOKENS}}

\* Quoted operators among ordinary words.
QuotedLines ==
  { <<"a", " ", "\"", "|", "\"", " ", "b">>,
    <<"a", " ", "'", ">", ">", "'", " ", "b">>,
    <<"a", " ", "\"", "&", "\"">>,
    <<"a", " ", "'", "<", "'", " ", "b">> }

\* Operators with no blank around them.
OperatorLines ==
  { <<"a", ">", "b">>,
    <<"a", ">", ">", "b">>,
    <<"a", ">", ">", ">", "b">>,
    <<"a", "<", "b", "|", "b", "&">> }

\* One stage more than cmds[] has room for, spelled with and without programs.
LongPipeLines ==
  {PipeLine(MAX_TOKENS + 1), [k \in 1 .. MAX_TOKENS |-> "|"]}

ParseLines ==
  CharLines \cup WordLines \cup QuotedLines \cup OperatorLines
    \cup LongPipeLines \cup ShellLines \cup PipeLines \cup BuiltinLines
    \cup RedirLines

\* The read loop has one line in hand.
ParseInit ==
  /\ pc = "tokenize"
  /\ nread = 1
  /\ line \in ParseLines
  /\ tokens = <<>>
  /\ rc = 0
  /\ cmds = <<>>
  /\ ncmds = 0
  /\ background = FALSE
  /\ nbuiltin = 0
  /\ i = 0
  /\ prev_fd = -1
  /\ pipe_fd = NoPipeFds
  /\ last_pid = -1
  /\ npipe = 0
  /\ jidx = 0
  /\ fds = [n \in Fds |-> IF n <= 2 THEN Tty ELSE Closed]
  /\ jobs = [k \in Slots |-> [pid |-> 0, cmdline |-> <<>>, running |-> FALSE]]
  /\ procs = [p \in Pids |-> NoProc]
  /\ hist = <<>>
  /\ sigpending = FALSE
  /\ inhandler = FALSE
  /\ announced = [p \in Pids |-> 0]
  /\ notices = [p \in Pids |-> <<>>]
  /\ jobfull = {}
  /\ waiterr = 0
  /\ failed = 0

\* main, lines 328-335: the line is trimmed; a blank line is skipped, any
\* other is tokenized, and a line without tokens is skipped.
DoTokenize ==
  /\ pc = "tokenize"
  /\ LET trim == Trim(line)
         toks == tokenize(trim, MAX_TOKENS)
     IN /\ line' = trim
        /\ tokens' = IF trim = <<>> THEN tokens ELSE toks
        /\ pc' = IF trim = <<>> \/ Len(toks) <= 0 THEN "skipped" ELSE "parse"
  /\ UNCHANGED <<nread, rc, cmds, ncmds, background, nbuiltin, execvars, jobvars,
                 procs, sigpending, inhandler, waiterr>>

\* main, line 341: the tokens are parsed.
DoParse ==
  /\ pc = "parse"
  /\ LET r == parse_commands(tokens)
     IN /\ rc' = r.rc
        /\ cmds' = r.cmds
        /\ ncmds' = r.ncmds
        /\ background' = r.background
  /\ pc' = "parsed"
  /\ UNCHANGED <<nread, line, tokens, nbuiltin, execvars, jobvars, procs,
                 sigpending, inhandler, waiterr>>

ParseNext == DoTokenize \/ DoParse

ParseSpec == ParseInit /\ [][ParseNext]_vars

\* ------------------------------------------------------------ words of a line

\* The quote that is open after the first k characters of s, "" if none.
RECURSIVE OpenQuote(_, _)
OpenQuote(s, k) ==
  IF k = 0 THEN ""
  ELSE LET q == OpenQuote(s, k - 1) IN
    IF q = "" THEN (IF IsQuote(s[k]) THEN s[k] ELSE "")
    ELSE IF s[k] = q THEN "" ELSE q

\* Position k holds a blank outside quotes.
Separates(s, k) == IsSpace(s[k]) /\ OpenQuote(s, k - 1) = ""

\* The positions where a word starts, and where the word starting at k ends.
WordStarts(s) ==
  {k \in 1 .. Len(s) : ~Separates(s, k) /\ (k = 1 \/ Separates(s, k - 1))}
WordEnd(s, k) ==
  CHOOSE e \in k .. Len(s) :
    /\ \A m \in k .. e : ~Separates(s, m)
    /\ e = Len(s) \/ Separates(s, e + 1)

\* The words of s separated by blanks outside quotes, in order, without their
\* quote characters.
WordsOf(s) ==
  LET starts == WordStarts(s)
      nth(j) == CHOOSE k \in starts : Cardinality({m \in starts : m < k}) = j - 1
  IN [j \in 1 .. Cardinality(starts) |->
        SelectSeq(SubSeq(s, nth(j), WordEnd(s, nth(j))), LAMBDA c : ~IsQuote(c))]

FirstWords(ws, n) == SubSeq(ws, 1, IF Len(ws) < n THEN Len(ws) ELSE n)

NoOperatorChars(s) == \A k \in 1 .. Len(s) : ~IsOperatorChar(s[k])
OperatorsQuoted(s) ==
  \A k \in 1 .. Len(s) : IsOperatorChar(s[k]) => OpenQuote(s, k - 1) # ""
OperatorTokens == {<<"|">>, <<"<">>, <<">">>, <<">", ">">>, <<"&">>}

\* parse_commands returned one stage with these arguments, no redirection
\* and the background flag clear.
OneStage(argv) ==
  /\ rc = 0
  /\ ncmds = 1
  /\ background = FALSE
  /\ cmds = <<[argv |-> argv, infile |-> <<>>, outfile |-> <<>>, append |-> FALSE]>>

\* ------------------------------------------------------------ claims C9, C10

\* C9: a quoted word whose text is an operator (for example "|", ">", "<",
\* ">>" or "&") is an ordinary argument after tokenize and parse_commands: on a
\* line whose operator characters are all quoted and that has such a word, the
\* parse gives one stage whose arguments are the line's words, no redirection
\* target and the background flag clear.
C9_QuotedOperatorIsArgument ==
  ( /\ pc = "parsed"
    /\ OperatorsQuoted(line)
    /\ Len(WordsOf(line)) <= MAX_TOKENS - 1
    /\ \E j \in 1 .. Len(WordsOf(line)) : WordsOf(line)[j] \in OperatorTokens )
  => OneStage(WordsOf(line))

\* C10 as stated: for any line without operators, tokenize and parse_commands
\* give exactly one stage, background flag clear, no redirection target, whose
\* arguments are the line's words with the quotes stripped, in order, none
\* missing.
C10_AllWords ==
  (pc = "parsed" /\ NoOperatorChars(line)) => OneStage(WordsOf(line))

\* C10 as amended: the arguments are the first MAX_TOKENS-1 words of the line;
\* none is missing when the line has at most MAX_TOKENS-1 words.
C10_FirstWords ==
  (pc = "parsed" /\ NoOperatorChars(line))
  => OneStage(FirstWords(WordsOf(line), MAX_TOKENS - 1))

\* A line of two words, one of them with a quoted blank, has been parsed.
C10_Witness ==
  /\ pc = "parsed"
  /\ NoOperatorChars(line)
  /\ Len(WordsOf(line)) = 2
  /\ \E k \in 1 .. Len(line) : IsSpace(line[k]) /\ ~Separates(line, k)
  /\ \E k \in 1 .. Len(line) : IsQuote(line[k])
  /\ cmds[1].argv = WordsOf(line)

\* ------------------------------------------------------------ claims C1-C8

\* The interpreter has come back from execute_pipeline with every stage launched.
Launched == i = ncmds /\ last_pid # -1
Returned == pc = "read" /\ Launched

\* Table f holds a descriptor naming o.
Holds(f, o) == \E n \in Fds : f[n] = o

\* Some live process, the interpreter included, holds a descriptor naming o.
HeldByAnyone(o) ==
  \/ pc # "exited" /\ Holds(fds, o)
  \/ \E x \in Pids : Alive(x) /\ Holds(procs[x].fds, o)

\* The tables with which child p can reach execvp or the exit after it (lines
\* 264-267): the table it has, once it runs its program; otherwise the table
\* each way through its code ends with, a failed open excepted.
TablesAtExec(p) ==
  IF procs[p].state = "running" THEN {procs[p].fds}
  ELSE IF procs[p].state = "forked" THEN
    LET me == procs[p]
        runs == {ChildRun(hist[me.ln].cmds[me.stage + 1], me.ln, me.stage,
                          me.fds, me.prev_fd, me.pipe_fd, b[1], b[2], b[3]) :
                   b \in BOOLEAN \X BOOLEAN \X BOOLEAN}
    IN {r.fds : r \in {x \in runs : x.left # "openfail"}}
  ELSE {}

NoRedirection(l) ==
  \A k \in 1 .. Len(hist[l].cmds) :
    hist[l].cmds[k].infile = <<>> /\ hist[l].cmds[k].outfile = <<>>

\* C1: for a background pipeline whose job add_job stored, and whatever the
\* order of the last stage's termination, the reaper and add_job: once that
\* process has been collected, exactly one completion notice naming its slot
\* and pid has been printed, and no record with that pid is active.
C1_OneNoticeThenInactive ==
  \A p \in Pids :
    (announced[p] # 0 /\ procs[p].state = "reaped")
    => /\ notices[p] = <<announced[p]>>
       /\ \A k \in Slots : ~(jobs[k].running /\ jobs[k].pid = p)

\* C2: a child that reaches execvp, or the exit after it, holds a pipe end
\* only as descriptor 0 (the read end of the pipe before its stage) or as
\* descriptor 1 (the write end of the pipe after its stage); once the parent
\* has launched a stage it holds at most the read end of that stage's pipe,
\* as prev_fd, and none once the last stage is launched.
C2_DescriptorDiscipline ==
  /\ \A p \in Pids : \A f \in TablesAtExec(p) : \A n \in Fds :
       IsPipeEnd(f[n])
       => \/ n = 0 /\ f[n] = ReadEnd(procs[p].ln, procs[p].stage - 1)
          \/ n = 1 /\ f[n] = WriteEnd(procs[p].ln, procs[p].stage)
  /\ \A n \in Fds :
       (IsPipeEnd(fds[n]) /\ i >= 1 /\ (pc # "read" \/ Launched))
       => /\ pc \in {"pipe", "fork", "parent"}
          /\ pc = "pipe" => n = prev_fd /\ fds[n] = ReadEnd(Len(hist), i - 1)

\* The discipline of C2 counted only over the pipes of the running call of
\* execute_pipeline: it holds of every call, whatever an earlier call that
\* failed at lines 222 or 228 left open in the interpreter.
C2_DisciplineOfOwnPipes ==
  /\ \A p \in Pids : \A f \in TablesAtExec(p) : \A n \in Fds :
       (IsPipeEnd(f[n]) /\ f[n].ln = procs[p].ln)
       => \/ n = 0 /\ f[n] = ReadEnd(procs[p].ln, procs[p].stage - 1)
          \/ n = 1 /\ f[n] = WriteEnd(procs[p].ln, procs[p].stage)
  /\ \A n \in Fds :
       ( /\ IsPipeEnd(fds[n])
         /\ fds[n].ln = Len(hist)
         /\ i >= 1
         /\ (pc # "read" \/ Launched) )
       => /\ pc \in {"pipe", "fork", "parent"}
          /\ pc = "pipe" => n = prev_fd /\ fds[n] = ReadEnd(Len(hist), i - 1)

\* The middle stage of a pipeline runs its program with both pipes on its
\* standard streams, having inherited three pipe descriptors.
C2_Witness ==
  \E p \in Pids :
    /\ procs[p].state = "running"
    /\ procs[p].stage = 1
    /\ Len(hist[procs[p].ln].cmds) >= 3
    /\ procs[p].fds[0] = ReadEnd(procs[p].ln, 0)
    /\ procs[p].fds[1] = WriteEnd(procs[p].ln, 1)
    /\ \A n \in Fds : n > 2 => procs[p].fds[n] = Closed

\* C3: once the process of stage k has terminated, for whatever reason, and
\* stage k+1 has been forked, no live process holds the write end of the pipe
\* between them: stage k+1 reads end-of-stream.
C3_NoWriterAfterUpstreamExit ==
  \A p, q \in Pids :
    ( /\ Terminated(p)
      /\ procs[q].state # "none"
      /\ procs[q].ln = procs[p].ln
      /\ procs[q].stage = procs[p].stage + 1 )
    => ~HeldByAnyone(WriteEnd(procs[p].ln, procs[p].stage))

\* The first stage, which has a redirection and no program, has exited, and
\* the second stage runs its program with the pipe between them as its input.
C3_Witness ==
  \E p, q \in Pids :
    /\ Terminated(p)
    /\ procs[p].stage = 0
    /\ hist[procs[p].ln].cmds[1].infile # <<>>
    /\ procs[q].state = "running"
    /\ procs[q].ln = procs[p].ln
    /\ procs[q].stage = 1
    /\ procs[q].fds[0] = ReadEnd(procs[p].ln, 0)

\* C4: a pipeline of n stages without redirection, launched without a pipe or
\* fork failure, has n-1 pipes and n children; stage k's standard output is
\* the write end and stage k+1's standard input the read end of pipe k, the
\* first stage's input and the last stage's output are the interpreter's.
C4_PipelineWiring ==
  /\ (pc \in {"wait", "add_job"} \/ Returned)
     => /\ npipe = ncmds - 1
        /\ Cardinality({p \in Pids : procs[p].ln = Len(hist)}) = ncmds
  /\ \A p \in Pids : \A f \in TablesAtExec(p) :
       NoRedirection(procs[p].ln)
       => LET l == procs[p].ln
              k == procs[p].stage
          IN /\ f[0] = IF k = 0 THEN fds[0] ELSE ReadEnd(l, k - 1)
             /\ f[1] = IF k = Len(hist[l].cmds) - 1 THEN fds[1] ELSE WriteEnd(l, k)

\* All stages of a pipeline of three or more stages without redirection run
\* their programs.
C4_Witness ==
  /\ Returned
  /\ ncmds >= 3
  /\ NoRedirection(Len(hist))
  /\ \A p \in Pids : procs[p].ln = Len(hist) => procs[p].state = "running"
  /\ Cardinality({p \in Pids : procs[p].ln = Len(hist)}) = ncmds

\* C5: when execute_pipeline comes back from a foreground pipeline whose
\* stages it has all launched, the last stage's process has terminated.
C5_ForegroundWaitsForLast ==
  (Returned /\ ~background)
  => /\ procs[last_pid].ln = Len(hist)
     /\ procs[last_pid].stage = ncmds - 1
     /\ Terminated(last_pid)

\* execute_pipeline has come back from a foreground pipeline while an earlier
\* stage still runs.
C5_Witness ==
  /\ Returned
  /\ ~background
  /\ Terminated(last_pid)
  /\ \E p \in Pids :
       procs[p].ln = Len(hist) /\ procs[p].stage < ncmds - 1 /\ Alive(p)

\* C6: however the reaper interleaves with the foreground wait, no wait
\* error is reported.
C6_NoWaitError == waiterr = 0

\* C7 as stated: a background pipeline never waits, and when execute_pipeline
\* comes back the job table holds the pid of the last stage with the command
\* line.
C7_RecordsLastPid ==
  /\ background => pc # "wait"
  /\ (Returned /\ background)
     => \E k \in Slots : jobs[k].pid = last_pid /\ jobs[k].cmdline = line

Prefix(s, n) == SubSeq(s, 1, IF Len(s) < n THEN Len(s) ELSE n)

\* C7 as amended: a background pipeline never waits, and when
\* execute_pipeline comes back either the slot add_job announced holds the pid
\* of the last stage with the first CMDLINE_SIZE-1 characters of the command
\* line, or add_job found no free slot, said so, and no record holds that pid.
C7_RecordsLastPidOrFull ==
  /\ background => pc # "wait"
  /\ (Returned /\ background)
     => /\ procs[last_pid].ln = Len(hist)
        /\ procs[last_pid].stage = ncmds - 1
        /\ \/ /\ announced[last_pid] \in Slots
              /\ last_pid \notin jobfull
              /\ jobs[announced[last_pid]].pid = last_pid
              /\ jobs[announced[last_pid]].cmdline = Prefix(line, CMDLINE_SIZE - 1)
           \/ /\ announced[last_pid] = 0
              /\ last_pid \in jobfull
              /\ \A k \in Slots : jobs[k].pid # last_pid

\* A background pipeline of two stages has been recorded while both stages
\* are alive.
C7_Witness ==
  /\ Returned
  /\ background
  /\ ncmds = 2
  /\ announced[last_pid] # 0
  /\ \A p \in Pids : procs[p].ln = Len(hist) => Alive(p)

\* The signal is delivered and the handler's loop runs on; the blocked
\* waitpid returns once it can.
Fairness ==
  /\ WF_vars(HandlerEnter)
  /\ WF_vars(HandlerReap)
  /\ WF_vars(HandlerReturn)
  /\ WF_vars(Wait)

FairPipeSpec == PipeSpec /\ Fairness

\* C8: the reaper collects every child that has terminated and never waits
\* for one that runs: while a terminated child is not collected the reaper is
\* due or running, the reaper always returns, and every terminated child is
\* collected in the end.
C8_EveryChildReaped ==
  /\ [](Zombies # {} => (sigpending \/ inhandler \/ pc = "exited"))
  /\ (inhandler ~> ~inhandler)
  /\ \A p \in Pids :
       (procs[p].state = "zombie") ~> (procs[p].state = "reaped" \/ pc = "exited")

\* The reaper runs while two children wait to be collected.
C8_Witness == inhandler /\ Cardinality(Zombies) >= 2

\* ------------------------------------------------------------ claims C11-C20

NoQuotes(s) == \A k \in 1 .. Len(s) : ~IsQuote(s[k])
NonBlank(s) == SelectSeq(s, LAMBDA c : ~IsSpace(c))

\* The tokens one after the other.
RECURSIVE Flatten(_)
Flatten(ts) == IF ts = <<>> THEN <<>> ELSE ts[1] \o Flatten(Tail(ts))

\* The number of '>' characters that precede position k of s without a gap.
RECURSIVE GtBefore(_, _)
GtBefore(s, k) == IF k > 1 /\ s[k - 1] = ">" THEN 1 + GtBefore(s, k - 1) ELSE 0

\* In a run of adjacent '>' characters, counted from its start, every second
\* one closes a pair, and the last one of a run of odd length is single.
GtPairs(s) == {k \in 1 .. Len(s) : s[k] = ">" /\ GtBefore(s, k) % 2 = 1}
GtSingles(s) ==
  {k \in 1 .. Len(s) :
     /\ s[k] = ">" /\ GtBefore(s, k) % 2 = 0
     /\ (k = Len(s) \/ s[k + 1] # ">")}

CountOf(ts, t) == Cardinality({j \in 1 .. Len(ts) : ts[j] = t})

\* C11: on a line without quotes (short enough for every token to be kept),
\* each operator character is a token of its own whatever stands next to it,
\* except that two adjacent '>' make the one token '>>': the tokens are
\* operators or words free of operator characters, together they are the
\* line without its blanks, and there are as many '>>' as pairs and as many
\* '>' as unpaired ones; a>b gives a, >, b and a>>b gives a, >>, b.
C11_OperatorsStandAlone ==
  ( /\ pc \in {"parse", "parsed"}
    /\ NoQuotes(line)
    /\ Len(NonBlank(line)) <= MAX_TOKENS - 1 )
  => /\ \A j \in 1 .. Len(tokens) :
          \/ tokens[j] \in OperatorTokens
          \/ tokens[j] # <<>> /\ NoOperatorChars(tokens[j])
     /\ Flatten(tokens) = NonBlank(line)
     /\ CountOf(tokens, <<">", ">">>) = Cardinality(GtPairs(line))
     /\ CountOf(tokens, <<">">>) = Cardinality(GtSingles(line))
     /\ \A op \in {"|", "<", "&"} :
          CountOf(tokens, <<op>>) = CountOf(line, op)
     /\ line = <<"a", ">", "b">> => tokens = << <<"a">>, <<">">>, <<"b">> >>
     /\ line = <<"a", ">", ">", "b">>
          => tokens = << <<"a">>, <<">", ">">>, <<"b">> >>

\* a>>b has been tokenized.
C11_Witness ==
  /\ pc = "parse"
  /\ line = <<"a", ">", ">", "b">>
  /\ Len(tokens) = 3

RedirectTokens == {<<"<">>, <<">">>, <<">", ">">>}

\* The first redirection operator among the tokens ts, or 0.
FirstRedirect(ts) ==
  IF \E k \in 1 .. Len(ts) : ts[k] \in RedirectTokens
    THEN CHOOSE k \in 1 .. Len(ts) :
           /\ ts[k] \in RedirectTokens
           /\ \A m \in 1 .. (k - 1) : ts[m] \notin RedirectTokens
    ELSE 0

\* The stage a token belongs to: one more than the '|' tokens before it.
StageOf(ts, k) == 1 + Cardinality({m \in 1 .. (k - 1) : ts[m] = <<"|">>})

\* C12: on a line without quotes, the first redirection operator followed by
\* a word gives its stage that word as input path (<) or output path (> and
\* >>, append set only for >>); followed by no token, or by a token that is
\* not a word, the parse fails.
C12_RedirectionNeedsWord ==
  ( /\ pc = "parsed"
    /\ NoQuotes(line)
    /\ Len(NonBlank(line)) <= MAX_TOKENS - 1
    /\ FirstRedirect(tokens) # 0 )
  => LET k == FirstRedirect(tokens) IN
     IF k < Len(tokens) /\ tokens[k + 1] \notin OperatorTokens
       THEN rc = 0 =>
              LET c == cmds[StageOf(tokens, k)] IN
              IF tokens[k] = <<"<">>
                THEN c.infile = <<tokens[k + 1]>>
                ELSE \/ c.outfile = <<tokens[k + 1]>>
                        /\ c.append = (tokens[k] = <<">", ">">>)
                     \/ \E m \in (k + 2) .. Len(tokens) :
                          /\ tokens[m] \in {<<">">>, <<">", ">">>}
                          /\ StageOf(tokens, m) = StageOf(tokens, k)
       ELSE rc = -1

\* The stages of a line without quotes: one more than its '|' characters.
StagesOf(s) == 1 + CountOf(s, "|")

\* C13: a line with more stages than MAX_TOKENS is rejected by parse_commands,
\* and parse_commands never fills more than MAX_TOKENS stages nor more than
\* MAX_TOKENS-1 arguments of a stage.
C13_TooManyStagesRejected ==
  (pc = "parsed" /\ NoQuotes(line))
  => /\ StagesOf(line) > MAX_TOKENS => rc = -1
     /\ Len(cmds) <= MAX_TOKENS
     /\ \A k \in 1 .. Len(cmds) : Len(cmds[k].argv) <= MAX_TOKENS - 1

BuiltinNames == {<<"c", "d">>, <<"e", "x", "i", "t">>, <<"j", "o", "b", "s">>}

\* The children forked for the pipeline in hand.
ChildrenOfStage(k) ==
  {p \in Pids : procs[p].state # "none" /\ procs[p].ln = Len(hist) /\ procs[p].stage = k}

\* The line in hand went to execute_pipeline.
InExecutor == hist # <<>> /\ hist[Len(hist)].cmdline = line

\* C14: a line that parses is run inside the interpreter exactly when it has
\* one stage whose program is cd, exit or jobs, and then the builtin has its
\* effect once and no child is forked for the line; any other line, one with
\* several stages of which one is named cd included, goes to the executor,
\* which forks one child for each stage.
C14_BuiltinRouting ==
  (nread > 0 /\ rc = 0)
  => /\ nbuiltin = (IF ncmds = 1 /\ cmds[1].argv # <<>> /\ cmds[1].argv[1] \in BuiltinNames
                     THEN 1 ELSE 0)
     /\ nbuiltin = 1 => /\ pc \in {"read", "exited"}
                        /\ last_pid = -1
                        /\ ~InExecutor
     /\ nbuiltin = 0 => /\ InExecutor
                        /\ \A k \in 0 .. (ncmds - 1) :
                             Cardinality(ChildrenOfStage(k)) =
                               (IF k < i \/ (k = i /\ pc = "parent") THEN 1 ELSE 0)
                        /\ pc \in {"wait", "add_job"} => i = ncmds
                        /\ pc = "read" => (i = ncmds \/ failed > 0)

\* A pipeline with a stage named cd has been launched with a child for each
\* stage, after cd alone ran inside the interpreter.
C14_Witness ==
  /\ nread = 2
  /\ Len(hist) = 1
  /\ ncmds = 2
  /\ nbuiltin = 0
  /\ Launched
  /\ \E k \in 1 .. 2 : cmds[k].argv = << <<"c", "d">> >>
  /\ \A k \in 0 .. 1 : Cardinality(ChildrenOfStage(k)) = 1

\* C15: whenever a record becomes active, its slot was inactive and every
\* slot before it is active (first fit), and the display index add_job
\* printed for the pid is the slot's index counted from one.
C15_FirstFit ==
  [][ \A k \in Slots :
        (jobs'[k].running /\ (~jobs[k].running \/ jobs'[k].pid # jobs[k].pid))
        => /\ ~jobs[k].running
           /\ \A m \in 1 .. (k - 1) : jobs[m].running
           /\ announced'[jobs'[k].pid] = k ]_vars

\* The part of C15 that holds whatever the reaper does meanwhile: a record
\* becomes active only in a slot that was inactive, under the display index of
\* that slot, and every slot before it was active when add_job's scan passed.
C15_FreeSlotTaken ==
  [][ \A k \in Slots :
        (jobs'[k].running /\ (~jobs[k].running \/ jobs'[k].pid # jobs[k].pid))
        => /\ ~jobs[k].running
           /\ jidx = k - 1
           /\ announced'[jobs'[k].pid] = k ]_vars

TableFull == \A k \in Slots : jobs[k].running

\* C16: while every slot is active add_job stores nothing; when it reports
\* that the list is full it leaves the records and the processes as they are
\* and goes back to the read loop; and the pipeline it reported for is never
\* recorded nor named by a completion notice, its process terminating or not.
C16_FullTableIgnoresJob ==
  /\ [][ (pc = "add_job" /\ pc' = "read" /\ TableFull)
           => (jobfull' = jobfull \cup {last_pid} /\ last_pid \notin jobfull) ]_vars
  /\ [][ jobfull' # jobfull
           => /\ jobs' = jobs
              /\ procs' = procs
              /\ notices' = notices
              /\ background /\ pc = "add_job" /\ pc' = "read" ]_vars
  /\ [](\A p \in jobfull :
          /\ notices[p] = <<>>
          /\ announced[p] = 0
          /\ \A k \in Slots : jobs[k].pid # p)

\* The process of a pipeline that found the table full has been collected
\* while the table is still full.
C16_Witness ==
  \E p \in jobfull :
    /\ procs[p].state = "reaped"
    /\ notices[p] = <<>>
    /\ TableFull
    /\ pc = "read"

\* The reaper collects p in this step.
ReaperCollects(p) ==
  inhandler /\ procs[p].state = "zombie" /\ procs'[p].state = "reaped"

\* C17: when the reaper collects a child whose pid no active record holds,
\* the job table stays as it is and no completion notice is printed; a running
\* flag is cleared only by the reaper as it collects the record's own pid,
\* and set only by add_job.
C17_OnlyOwnRecordRetired ==
  /\ [][ \A p \in Pids :
           (ReaperCollects(p) /\ \A k \in Slots : ~(jobs[k].running /\ jobs[k].pid = p))
           => (jobs' = jobs /\ notices' = notices) ]_vars
  /\ [][ \A k \in Slots :
           (jobs[k].running /\ ~jobs'[k].running)
           => (jobs[k].pid \in Pids /\ ReaperCollects(jobs[k].pid)) ]_vars
  /\ [][ \A k \in Slots :
           (~jobs[k].running /\ jobs'[k].running)
           => (pc = "add_job" /\ ~inhandler /\ jobs'[k].pid = last_pid) ]_vars

\* The reaper has collected the first stage of a background pipeline while
\* the record of its last stage is active and no notice has been printed.
C17_Witness ==
  \E p, q \in Pids :
    /\ procs[p].state = "reaped"
    /\ procs[p].stage = 0
    /\ Alive(q)
    /\ procs[q].ln = procs[p].ln
    /\ procs[q].stage = 1
    /\ hist[procs[p].ln].background
    /\ \E k \in Slots : jobs[k].running /\ jobs[k].pid = q
    /\ \A x \in Pids : notices[x] = <<>>

IsAmpersand(t) == t = <<"&">>
WithoutAmpersand(ts) == SelectSeq(ts, LAMBDA t : ~IsAmpersand(t))
HasAmpersand(ts) == \E k \in 1 .. Len(ts) : IsAmpersand(ts[k])

\* An '&' token stands right after a redirection operator.
AmpersandAfterRedirect(ts) ==
  \E k \in 2 .. Len(ts) : IsAmpersand(ts[k]) /\ ts[k - 1] \in RedirectTokens

\* The & tokens do nothing but set the flag: the parse succeeds or fails as
\* it does without them and gives the same stages, the flag is set exactly
\* when there is an & token, and no argument is an & token.
AmpersandOnlySetsFlag ==
  LET r == parse_commands(WithoutAmpersand(tokens)) IN
  /\ rc = r.rc
  /\ rc = 0 => /\ cmds = r.cmds
               /\ ncmds = r.ncmds
               /\ background = HasAmpersand(tokens)
               /\ \A k \in 1 .. Len(cmds) : \A j \in 1 .. Len(cmds[k].argv) :
                    ~IsAmpersand(cmds[k].argv[j])

\* C18: wherever the & token stands among the tokens, it sets the background
\* flag, opens no stage and is no argument, so that the words on its two
\* sides are arguments of one stage.
C18_AmpersandAnywhere ==
  pc = "parsed" => AmpersandOnlySetsFlag

\* The part of C18 that holds: the same, for & tokens that do not stand right
\* after a redirection operator.
C18_AmpersandNotAfterRedirect ==
  (pc = "parsed" /\ ~AmpersandAfterRedirect(tokens)) => AmpersandOnlySetsFlag

\* The stage child p was forked for.
CmdOf(p) == hist[procs[p].ln].cmds[procs[p].stage + 1]

\* C19: a child that reaches execvp, or the exit after it, for a stage with
\* an output path has that file as standard output, opened for appending for
\* >> and truncated for >, and holds no write end of the pipe to the next
\* stage; for a stage with an input path it has that file as standard input
\* and holds no read end of the pipe from the previous stage.  Once a stage
\* with an output path runs its program and the parent has closed its copy,
\* nobody holds the write end of the pipe to the next stage.  A child whose
\* input file cannot be opened exits with status 1; a child that terminates
\* changes nothing in the interpreter nor in the other children.
C19_RedirectionOverridesPipe ==
  /\ [](\A p \in Pids : \A f \in TablesAtExec(p) :
         LET c == CmdOf(p)
             l == procs[p].ln
             k == procs[p].stage
         IN /\ c.outfile # <<>>
               => /\ f[1] = (IF c.append THEN OutFileAppend(l, k) ELSE OutFile(l, k))
                  /\ ~Holds(f, WriteEnd(l, k))
            /\ c.infile # <<>>
               => /\ f[0] = InFile(l, k)
                  /\ ~Holds(f, ReadEnd(l, k - 1)))
  /\ [](\A p \in Pids :
         ( /\ procs[p].state = "running"
           /\ CmdOf(p).outfile # <<>>
           /\ ~(pc = "parent" /\ procs[p].ln = Len(hist) /\ procs[p].stage = i) )
         => ~HeldByAnyone(WriteEnd(procs[p].ln, procs[p].stage)))
  /\ [](\A p \in Pids :
         (procs[p].state = "forked" /\ CmdOf(p).infile # <<>>)
         => LET r == ChildRun(CmdOf(p), procs[p].ln, procs[p].stage, procs[p].fds,
                              procs[p].prev_fd, procs[p].pipe_fd, FALSE, TRUE, TRUE)
            IN r.left = "openfail" /\ r.status = 1)
  /\ [][ \A p \in Pids :
           (procs[p].state = "forked" /\ procs'[p].state = "zombie")
           => /\ \A q \in Pids \ {p} : procs'[q] = procs[q]
              /\ UNCHANGED <<pc, i, ncmds, fds, prev_fd, pipe_fd, last_pid, jobs>> ]_vars

\* The middle stage could not open its input file and has exited with status
\* 1, while the stages on its two sides run their programs.
C19_Witness ==
  \E p \in Pids :
    /\ procs[p].state = "zombie"
    /\ procs[p].status = 1
    /\ procs[p].stage = 1
    /\ CmdOf(p).infile # <<>>
    /\ Launched
    /\ \A q \in Pids \ {p} : procs[q].state = "running"

\* C20: when execute_pipeline has come back to the read loop, after a failure
\* of pipe() or fork() as after a full launch, the interpreter holds no pipe
\* descriptor, and no job record holds a child of a pipeline that was
\* abandoned.
C20_NoDescriptorLeftOpen ==
  pc = "read"
  => /\ \A n \in Fds : ~IsPipeEnd(fds[n])
     /\ (hist # <<>> /\ i < ncmds)
        => \A k \in Slots : \A p \in Pids :
             (procs[p].state # "none" /\ procs[p].ln = Len(hist)) => jobs[k].pid # p

====
